---- MODULE Spec2Model ----
(***************************************************************************)
(* NovaScript compiler (src/compiler.py): Lexer, Parser, CodeGenerator and *)
(* NovaScriptCompiler.compile.  Text is modelled as sequences of one-      *)
(* character strings.  The lexer, the expression parser and the expression *)
(* visitors are operators computed as the code computes them; the          *)
(* statement-level parser and generator are a state machine whose stacks   *)
(* (frames, gen) are the Python call stacks of parse_program /             *)
(* parse_function and visit_Program / visit_FunctionDecl.                  *)
(***************************************************************************)
EXTENDS Integers, Sequences, FiniteSets, TLC

VARIABLES
    source,         \* compile's argument source_code
    pc,             \* position inside compile
    lexer,          \* Lexer fields pos, line, column
    current_token,  \* Parser.current_token
    frames,         \* call stack of parse_program / parse_function with their locals
    ast,            \* the Program returned by parse_program
    gen,            \* call stack of visit_Program / visit_FunctionDecl
    output,         \* CodeGenerator.output
    indent_level,   \* CodeGenerator.indent_level
    symbols,        \* CodeGenerator.symbol_table.symbols
    result          \* what compile returned (or the exception that escaped it)

vars == <<source, pc, lexer, current_token, frames, ast, gen, output,
          indent_level, symbols, result>>

-----------------------------------------------------------------------------
(* Bounds *)

\* Stand-in for the interpreter's recursion limit (1000 in CPython), scaled
\* down so that sources of a few dozen characters reach it.
RecursionLimit == 24

-----------------------------------------------------------------------------
(* Characters and the str methods the lexer and the parser use *)

LowerSeq == <<"a", "b", "c", "d", "e", "f", "g", "h", "i", "j", "k", "l", "m",
              "n", "o", "p", "q", "r", "s", "t", "u", "v", "w", "x", "y", "z">>
UpperSeq == <<"A", "B", "C", "D", "E", "F", "G", "H", "I", "J", "K", "L", "M",
              "N", "O", "P", "Q", "R", "S", "T", "U", "V", "W", "X", "Y", "Z">>
DigitSeq == <<"0", "1", "2", "3", "4", "5", "6", "7", "8", "9">>

Range(s) == {s[i] : i \in DOMAIN s}

\* current_char is None at the end of the source
NoChar == "None"

isspace(c) == c \in {" ", "\n", "\t", "\r", "\f"}
isdigit(c) == c \in Range(DigitSeq)
isalpha(c) == c \in Range(LowerSeq) \cup Range(UpperSeq)
isalnum(c) == isalpha(c) \/ isdigit(c)

upper_char(c) ==
    IF c \in Range(LowerSeq)
    THEN UpperSeq[CHOOSE i \in DOMAIN LowerSeq : LowerSeq[i] = c]
    ELSE c

upper(s) == [i \in DOMAIN s |-> upper_char(s[i])]

\* the keyword table built by Lexer.__init__
keywords ==
    (<<"P", "R", "O", "G", "R", "A", "M">> :> "PROGRAM") @@
    (<<"B", "E", "G", "I", "N">> :> "BEGIN") @@
    (<<"E", "N", "D">> :> "END") @@
    (<<"f", "u", "n", "c">> :> "FUNC") @@
    (<<"r", "e", "t", "u", "r", "n">> :> "RETURN") @@
    (<<"i", "f">> :> "IF") @@
    (<<"t", "h", "e", "n">> :> "THEN") @@
    (<<"e", "l", "s", "e">> :> "ELSE") @@
    (<<"w", "h", "i", "l", "e">> :> "WHILE") @@
    (<<"f", "o", "r">> :> "FOR") @@
    (<<"d", "o">> :> "DO") @@
    (<<"i", "n">> :> "IN") @@
    (<<"c", "l", "a", "s", "s">> :> "CLASS") @@
    (<<"t", "r", "y">> :> "TRY") @@
    (<<"e", "x", "c", "e", "p", "t">> :> "EXCEPT") @@
    (<<"u", "s", "e">> :> "USE") @@
    (<<"d", "i", "s", "p", "l", "a", "y">> :> "DISPLAY") @@
    (<<"n", "u", "m">> :> "NUM") @@
    (<<"s", "t", "r">> :> "STR") @@
    (<<"b", "o", "o", "l">> :> "BOOL") @@
    (<<"l", "i", "s", "t">> :> "LIST") @@
    (<<"t", "r", "u", "e">> :> "TRUE") @@
    (<<"f", "a", "l", "s", "e">> :> "FALSE")

-----------------------------------------------------------------------------
(* Exceptions, as the data str(e) is built from *)

Over(d) == d > RecursionLimit

SyntaxErr(message, expected, got, l, c) ==
    [type |-> "SyntaxError", message |-> message, expected |-> expected,
     got |-> got, text |-> <<>>, line |-> l, column |-> c]

RecursionErr ==
    [type |-> "RecursionError", message |-> "maximum recursion depth exceeded",
     expected |-> "", got |-> "", text |-> <<>>, line |-> 0, column |-> 0]

ValueErr(text) ==
    [type |-> "ValueError", message |-> "could not convert string to float",
     expected |-> "", got |-> "", text |-> text, line |-> 0, column |-> 0]

NoError ==
    [type |-> "", message |-> "", expected |-> "", got |-> "", text |-> <<>>,
     line |-> 0, column |-> 0]

-----------------------------------------------------------------------------
(* Lexer.  L is the record of the Lexer's fields pos, line, column; d is   *)
(* the depth of the Python call stack at the modelled call.                *)

Token(type, value, l, c) == [type |-> type, value |-> value, line |-> l, column |-> c]

NoToken == Token("None", <<>>, 0, 0)

\* K applied to the value v: a local name for a value used more than once
With(v, K(_)) == K(v)

LexOk(t, L) == [raised |-> FALSE, err |-> NoError, tok |-> t, lex |-> L]

LexRaise(e, L) == [raised |-> TRUE, err |-> e, tok |-> NoToken, lex |-> L]

Lexer_init == [pos |-> 0, line |-> 1, column |-> 1]

current_char(src, L) == IF L.pos < Len(src) THEN src[L.pos + 1] ELSE NoChar

advance(L) == [L EXCEPT !.pos = @ + 1, !.column = @ + 1]

peek(src, L) == IF L.pos + 1 < Len(src) THEN src[L.pos + 2] ELSE NoChar

RECURSIVE skip_whitespace(_, _)
skip_whitespace(src, L) ==
    LET c == current_char(src, L) IN
    IF c # NoChar /\ isspace(c)
    THEN skip_whitespace(src,
             advance(IF c = "\n" THEN [L EXCEPT !.line = @ + 1, !.column = 0] ELSE L))
    ELSE L

\* the while loops of read_number and read_identifier: [text, lex]
RECURSIVE read_run(_, _, _, _)
read_run(src, L, acc, numeric) ==
    LET c == current_char(src, L) IN
    IF c # NoChar /\ (IF numeric THEN isdigit(c) \/ c = "."
                                 ELSE isalnum(c) \/ c = "_")
    THEN read_run(src, advance(L), Append(acc, c), numeric)
    ELSE [text |-> acc, lex |-> L]

read_number(src, L) ==
    With(read_run(src, L, <<>>, TRUE),
         LAMBDA r : LexOk(Token("NUMBER", r.text, r.lex.line, L.column), r.lex))

\* self.keywords.get(result, TokenType.IDENTIFIER)
keyword_or_identifier(text) == IF text \in DOMAIN keywords THEN keywords[text] ELSE "IDENTIFIER"

read_identifier(src, L) ==
    With(read_run(src, L, <<>>, FALSE),
         LAMBDA r : LexOk(Token(keyword_or_identifier(r.text), r.text, r.lex.line, L.column),
                          r.lex))

RECURSIVE read_string_loop(_, _, _)
read_string_loop(src, L, acc) ==
    LET c == current_char(src, L) IN
    IF c # NoChar /\ c # "\""
    THEN read_string_loop(src, advance(L), Append(acc, c))
    ELSE [text |-> acc, lex |-> L]

\* if self.current_char == '"': self.advance()
skip_closing_quote(src, L) == IF current_char(src, L) = "\"" THEN advance(L) ELSE L

read_string(src, L) ==
    With(read_string_loop(src, advance(L), <<>>),
         LAMBDA r : LexOk(Token("STRING", r.text, r.lex.line, L.column),
                          skip_closing_quote(src, r.lex)))

RECURSIVE read_line_comment(_, _, _)
read_line_comment(src, L, acc) ==
    LET c == current_char(src, L) IN
    IF c # NoChar /\ c # "\n"
    THEN read_line_comment(src, advance(L), Append(acc, c))
    ELSE [text |-> acc, lex |-> L]

RECURSIVE read_block_comment(_, _, _)
read_block_comment(src, L, acc) ==
    LET c == current_char(src, L) IN
    IF c = NoChar THEN [text |-> acc, lex |-> L]
    ELSE IF c = "*" /\ peek(src, L) = "/"
    THEN [text |-> acc, lex |-> advance(advance(L))]
    ELSE read_block_comment(src,
             advance(IF c = "\n" THEN [L EXCEPT !.line = @ + 1, !.column = 0] ELSE L),
             Append(acc, c))

\* read_comment returns a token (raised = FALSE, tok.type = "COMMENT") or
\* None (tok = NoToken)
read_comment(src, L) ==
    IF current_char(src, L) = "#"
    THEN With(read_line_comment(src, L, <<>>),
              LAMBDA r : LexOk(Token("COMMENT", r.text, r.lex.line, L.column), r.lex))
    ELSE IF current_char(src, L) = "/" /\ peek(src, L) = "*"
    THEN With(read_block_comment(src, advance(advance(L)), <<>>),
              LAMBDA r : LexOk(Token("COMMENT", r.text, r.lex.line, L.column), r.lex))
    ELSE LexOk(NoToken, L)

\* the one-character tokens of get_next_token
Punctuation ==
    ("+" :> "PLUS") @@ ("-" :> "MINUS") @@ ("*" :> "MULTIPLY") @@ ("/" :> "DIVIDE") @@
    ("(" :> "LPAREN") @@ (")" :> "RPAREN") @@ ("[" :> "LBRACKET") @@
    ("]" :> "RBRACKET") @@ ("," :> "COMMA") @@ ("." :> "DOT") @@ (":" :> "COLON")

\* Python frames below get_next_token before the character c is dealt with:
\* read_comment is always called; skip_whitespace, read_number, read_identifier,
\* read_string and read_comment call advance or peek in turn.
LexFrames(c) ==
    IF isspace(c) \/ isdigit(c) \/ isalpha(c) \/ c \in {"_", "\"", "#", "/"}
    THEN 2 ELSE 1

\* get_next_token on '=': ASSIGN, or EQUALS when another '=' follows
read_equals(src, L) ==
    IF current_char(src, advance(L)) = "="
    THEN LexOk(Token("EQUALS", <<"=", "=">>, L.line, L.column), advance(advance(L)))
    ELSE LexOk(Token("ASSIGN", <<"=">>, L.line, L.column), advance(L))

\* read_token that passes a character without a rule on as a comment
read_token_lenient(src, L, c) ==
    IF isdigit(c) THEN read_number(src, L)
    ELSE IF isalpha(c) \/ c = "_" THEN read_identifier(src, L)
    ELSE IF c = "\"" THEN read_string(src, L)
    ELSE IF c = "=" THEN read_equals(src, L)
    ELSE IF c \in DOMAIN Punctuation
    THEN LexOk(Token(Punctuation[c], <<c>>, L.line, L.column), advance(L))
    ELSE LexOk(Token("COMMENT", <<c>>, L.line, L.column), advance(L))

\* get_next_token on the character c once read_comment has returned None
read_token(src, L, c) ==
    IF isdigit(c) THEN read_number(src, L)
    ELSE IF isalpha(c) \/ c = "_" THEN read_identifier(src, L)
    ELSE IF c = "\"" THEN read_string(src, L)
    ELSE IF c = "=" THEN read_equals(src, L)
    ELSE IF c \in DOMAIN Punctuation
    THEN LexOk(Token(Punctuation[c], <<c>>, L.line, L.column), advance(L))
    ELSE LexRaise(SyntaxErr("Invalid character", "", c, L.line, L.column), L)

\* the result carries the token returned and the lexer after the call, or
\* the exception raised
RECURSIVE get_next_token(_, _, _)
get_next_token(src, L, d) ==
    LET c == current_char(src, L) IN
    IF Over(d) THEN LexRaise(RecursionErr, L)
    ELSE IF c = NoChar THEN LexOk(Token("EOF", <<>>, L.line, L.column), L)
    ELSE IF Over(d + LexFrames(c)) THEN LexRaise(RecursionErr, L)
    ELSE IF isspace(c) THEN get_next_token(src, skip_whitespace(src, L), d)
    ELSE With(read_comment(src, L),
              LAMBDA comment_token : IF comment_token.tok # NoToken THEN comment_token
                                     ELSE read_token(src, L, c))

-----------------------------------------------------------------------------
(* AST nodes *)

NoNode == [node |-> "None"]

Number(value) == [node |-> "Number", value |-> value]

String(value) == [node |-> "String", value |-> value]

Boolean(value) == [node |-> "Boolean", value |-> value]

Identifier(name) == [node |-> "Identifier", name |-> name]

BinaryOp(left, operator, right) ==
    [node |-> "BinaryOp", left |-> left, operator |-> operator, right |-> right]

Display(value) == [node |-> "Display", value |-> value]

Assignment(target, value) == [node |-> "Assignment", target |-> target, value |-> value]

VariableDecl(name, type, value) ==
    [node |-> "VariableDecl", name |-> name, type |-> type, value |-> value]

FunctionDecl(name, params, return_type, body) ==
    [node |-> "FunctionDecl", name |-> name, params |-> params,
     return_type |-> return_type, body |-> body]

Program(description, author, date, body) ==
    [node |-> "Program", description |-> description, author |-> author,
     date |-> date, body |-> body]

\* Python's None where a str is optional (metadata, return_type, param_type)
None == <<"None">>

-----------------------------------------------------------------------------
(* float(text) and str(float) for the lexemes read_number produces: a      *)
(* digit followed by digits and dots.  A float is kept as its integer part *)
(* and its fraction digits without trailing zeros; the lexemes of the      *)
(* model are short enough for both to be exact and for str to use the      *)
(* positional notation.                                                    *)

DigitValue(c) == (CHOOSE i \in DOMAIN DigitSeq : DigitSeq[i] = c) - 1

RECURSIVE NatOfDigits(_)
NatOfDigits(ds) ==
    IF ds = <<>> THEN 0
    ELSE 10 * NatOfDigits(SubSeq(ds, 1, Len(ds) - 1)) + DigitValue(ds[Len(ds)])

RECURSIVE DigitsOfNat(_)
DigitsOfNat(n) ==
    IF n < 10 THEN <<DigitSeq[n + 1]>>
    ELSE Append(DigitsOfNat(n \div 10), DigitSeq[(n % 10) + 1])

RECURSIVE StripTrailingZeros(_)
StripTrailingZeros(ds) ==
    IF ds # <<>> /\ ds[Len(ds)] = "0"
    THEN StripTrailingZeros(SubSeq(ds, 1, Len(ds) - 1))
    ELSE ds

Dots(text) == {i \in DOMAIN text : text[i] = "."}

float_ok(text) == Cardinality(Dots(text)) <= 1

float(text) ==
    LET dot == IF Dots(text) = {} THEN Len(text) + 1 ELSE CHOOSE i \in Dots(text) : TRUE
    IN [ip |-> NatOfDigits(SubSeq(text, 1, dot - 1)),
        fd |-> StripTrailingZeros(SubSeq(text, dot + 1, Len(text)))]

str_float(x) == DigitsOfNat(x.ip) \o <<".">> \o (IF x.fd = <<>> THEN <<"0">> ELSE x.fd)

-----------------------------------------------------------------------------
(* Parser: eat and the expression grammar.  P is the record of the         *)
(* parser's current token (tok) and its lexer's fields (lex); the results  *)
(* carry the node returned and the parser after the call, or the exception *)
(* raised.                                                                 *)

POk(P, n) == [raised |-> FALSE, err |-> NoError, tok |-> P.tok, lex |-> P.lex, node |-> n]

\* P is the parser as the exception leaves it
PRaise(e, P) == [raised |-> TRUE, err |-> e, tok |-> P.tok, lex |-> P.lex, node |-> NoNode]

\* Parser.error, called at depth d
error(P, message, expected, got, d) ==
    IF Over(d) THEN PRaise(RecursionErr, P)
    ELSE PRaise(SyntaxErr(message, expected, got, P.tok.line, P.tok.column), P)

\* self.current_token = self.lexer.get_next_token(); g is the lexer's result
advance_token(P, g) ==
    IF g.raised THEN PRaise(g.err, [tok |-> P.tok, lex |-> g.lex])
    ELSE POk([tok |-> g.tok, lex |-> g.lex], NoNode)

eat(src, P, token_type, d) ==
    IF Over(d) THEN PRaise(RecursionErr, P)
    ELSE IF P.tok.type = token_type
    THEN advance_token(P, get_next_token(src, P.lex, d + 1))
    ELSE error(P, "Expected", token_type, P.tok.type, d + 1)

\* K applied to the result r of a call, unless the call raised: the
\* exception then propagates
Bind(r, K(_)) == IF r.raised THEN r ELSE K(r)

\* Number(float(token.value))
number_node(value, P) ==
    IF ~float_ok(value) THEN PRaise(ValueErr(value), P) ELSE POk(P, Number(float(value)))

RECURSIVE parse_expression(_, _, _)
RECURSIVE expression_loop(_, _, _, _)
RECURSIVE parse_term(_, _, _)
RECURSIVE term_loop(_, _, _, _)
RECURSIVE parse_factor(_, _, _)

parse_factor(src, P, d) ==
    IF Over(d) THEN PRaise(RecursionErr, P)
    ELSE IF P.tok.type = "NUMBER"
    THEN Bind(eat(src, P, "NUMBER", d + 1), LAMBDA e : number_node(P.tok.value, e))
    ELSE IF P.tok.type = "STRING"
    THEN Bind(eat(src, P, "STRING", d + 1), LAMBDA e : POk(e, String(P.tok.value)))
    ELSE IF P.tok.type \in {"TRUE", "FALSE"}
    THEN Bind(eat(src, P, P.tok.type, d + 1),
              LAMBDA e : POk(e, Boolean(P.tok.type = "TRUE")))
    ELSE IF P.tok.type = "IDENTIFIER"
    THEN Bind(eat(src, P, "IDENTIFIER", d + 1),
              LAMBDA e : POk(e, Identifier(P.tok.value)))
    ELSE IF P.tok.type = "LPAREN"
    THEN Bind(eat(src, P, "LPAREN", d + 1),
              LAMBDA e : Bind(parse_expression(src, e, d + 1),
              LAMBDA n : Bind(eat(src, n, "RPAREN", d + 1),
              LAMBDA c : POk(c, n.node))))
    ELSE error(P, "Unexpected factor token", "", P.tok.type, d + 1)

\* the while loop of parse_term; node is the tree built so far
term_loop(src, P, node, d) ==
    IF P.tok.type \in {"MULTIPLY", "DIVIDE"}
    THEN Bind(eat(src, P, P.tok.type, d + 1),
              LAMBDA e : Bind(parse_factor(src, e, d + 1),
              LAMBDA right : term_loop(src, right,
                                       BinaryOp(node, P.tok.type, right.node), d)))
    ELSE POk(P, node)

parse_term(src, P, d) ==
    IF Over(d) THEN PRaise(RecursionErr, P)
    ELSE Bind(parse_factor(src, P, d + 1), LAMBDA n : term_loop(src, n, n.node, d))

\* expression_loop that takes everything after the operator for its right
\* operand
expression_loop_right(src, P, node, d) ==
    IF P.tok.type \in {"PLUS", "MINUS"}
    THEN Bind(eat(src, P, P.tok.type, d + 1),
              LAMBDA e : Bind(parse_expression(src, e, d + 1),
              LAMBDA right : POk(right, BinaryOp(node, P.tok.type, right.node))))
    ELSE POk(P, node)

\* the while loop of parse_expression
expression_loop(src, P, node, d) ==
    IF P.tok.type \in {"PLUS", "MINUS"}
    THEN Bind(eat(src, P, P.tok.type, d + 1),
              LAMBDA e : Bind(parse_term(src, e, d + 1),
              LAMBDA right : expression_loop(src, right,
                                             BinaryOp(node, P.tok.type, right.node), d)))
    ELSE POk(P, node)

parse_expression(src, P, d) ==
    IF Over(d) THEN PRaise(RecursionErr, P)
    ELSE Bind(parse_term(src, P, d + 1), LAMBDA n : expression_loop(src, n, n.node, d))

parse_display(src, P, d) ==
    IF Over(d) THEN PRaise(RecursionErr, P)
    ELSE Bind(eat(src, P, "DISPLAY", d + 1),
              LAMBDA e : Bind(parse_expression(src, e, d + 1),
              LAMBDA v : POk(v, Display(v.node))))

\* parse_assignment that takes a name followed by a string for metadata and
\* skips the pair
parse_assignment_or_pair(src, P, d) ==
    IF Over(d) THEN PRaise(RecursionErr, P)
    ELSE Bind(eat(src, P, "IDENTIFIER", d + 1),
              LAMBDA e : IF e.tok.type = "STRING" THEN eat(src, e, "STRING", d + 1)
                         ELSE Bind(eat(src, e, "ASSIGN", d + 1),
                                   LAMBDA a : Bind(parse_expression(src, a, d + 1),
                                   LAMBDA v : POk(v, Assignment(P.tok.value, v.node)))))

parse_assignment(src, P, d) ==
    IF Over(d) THEN PRaise(RecursionErr, P)
    ELSE Bind(eat(src, P, "IDENTIFIER", d + 1),
              LAMBDA e : Bind(eat(src, e, "ASSIGN", d + 1),
              LAMBDA a : Bind(parse_expression(src, a, d + 1),
              LAMBDA v : POk(v, Assignment(P.tok.value, v.node)))))

parse_variable_declaration(src, P, d) ==
    IF Over(d) THEN PRaise(RecursionErr, P)
    ELSE Bind(eat(src, P, P.tok.type, d + 1),
              LAMBDA t : Bind(eat(src, t, "IDENTIFIER", d + 1),
              LAMBDA e : Bind(eat(src, e, "ASSIGN", d + 1),
              LAMBDA a : Bind(parse_expression(src, a, d + 1),
              LAMBDA v : POk(v, VariableDecl(t.tok.value, P.tok.value, v.node))))))

-----------------------------------------------------------------------------
(* CodeGenerator: the expression visitors and the text they build *)

GeneratedMarker ==
    <<"#", " ", "G", "e", "n", "e", "r", "a", "t", "e", "d", " ", "P", "y", "t", "h",
      "o", "n", " ", "c", "o", "d", "e">>
DescriptionLabel ==
    <<"#", " ", "D", "e", "s", "c", "r", "i", "p", "t", "i", "o", "n", ":", " ">>
AuthorLabel == <<"#", " ", "A", "u", "t", "h", "o", "r", ":", " ">>
DateLabel == <<"#", " ", "D", "a", "t", "e", ":", " ">>
DefKeyword == <<"d", "e", "f", " ">>
ParameterLabel == <<"#", " ", "P", "a", "r", "a", "m", "e", "t", "e", "r", " ">>
ReturnsLabel == <<"#", " ", "R", "e", "t", "u", "r", "n", "s", ":", " ">>
PrintCall == <<"p", "r", "i", "n", "t", "(">>
CompilationErrorPrefix ==
    <<"C", "o", "m", "p", "i", "l", "a", "t", "i", "o", "n", " ", "e", "r", "r", "o",
      "r", ":", " ">>
IndentUnit == <<" ", " ", " ", " ">>

\* str(True), str(False)
str_bool(b) == IF b THEN <<"T", "r", "u", "e">> ELSE <<"F", "a", "l", "s", "e">>

op_map == ("PLUS" :> "+") @@ ("MINUS" :> "-") @@ ("MULTIPLY" :> "*") @@ ("DIVIDE" :> "/")

\* sep.join(items)
RECURSIVE join(_, _)
join(sep, items) ==
    IF items = <<>> THEN <<>>
    ELSE IF Len(items) = 1 THEN items[1]
    ELSE items[1] \o sep \o join(sep, Tail(items))

\* "    " * n
RECURSIVE Indentation(_)
Indentation(n) == IF n <= 0 THEN <<>> ELSE IndentUnit \o Indentation(n - 1)

\* the line emit appends
emit(level, code) == Indentation(level) \o code

\* truth value of an Optional[str]
Truthy(s) == s # None /\ s # <<>>

VOk(text) == [raised |-> FALSE, text |-> text]

VRaise == [raised |-> TRUE, text |-> <<>>]

\* f"({left} {op} {right})"
binary_text(left, operator, right) ==
    VOk(<<"(">> \o left.text \o <<" ", op_map[operator], " ">> \o right.text \o <<")">>)

\* visit(node) for an expression node, called at depth d; visit_<Node> runs at d + 1
RECURSIVE visit(_, _)
visit(node, d) ==
    IF Over(d + 1) THEN VRaise
    ELSE IF node.node = "Number" THEN VOk(str_float(node.value))
    ELSE IF node.node = "String" THEN VOk(<<"\"">> \o node.value \o <<"\"">>)
    ELSE IF node.node = "Boolean" THEN VOk(str_bool(node.value))
    ELSE IF node.node = "Identifier" THEN VOk(node.name)
    ELSE Bind(visit(node.left, d + 2),
              LAMBDA left : Bind(visit(node.right, d + 2),
              LAMBDA right : binary_text(left, node.operator, right)))

\* the header lines of visit_Program
ProgramHeader(node) ==
    <<GeneratedMarker>>
    \o (IF Truthy(node.description) THEN <<DescriptionLabel \o node.description>> ELSE <<>>)
    \o (IF Truthy(node.author) THEN <<AuthorLabel \o node.author>> ELSE <<>>)
    \o (IF Truthy(node.date) THEN <<DateLabel \o node.date>> ELSE <<>>)
    \o << <<>> >>

\* the lines visit_FunctionDecl emits before the body, at indent level n
RECURSIVE ParameterComments(_, _)
ParameterComments(params, n) ==
    IF params = <<>> THEN <<>>
    ELSE (IF Truthy(params[1][2])
          THEN <<emit(n, ParameterLabel \o params[1][1] \o <<":", " ">> \o params[1][2])>>
          ELSE <<>>)
         \o ParameterComments(Tail(params), n)

FunctionHeader(node, n) ==
    <<emit(n, DefKeyword \o node.name \o <<"(">>
              \o join(<<",", " ">>, [i \in DOMAIN node.params |-> node.params[i][1]])
              \o <<")", ":">>)>>
    \o ParameterComments(node.params, n + 1)
    \o (IF Truthy(node.return_type)
        THEN <<emit(n + 1, ReturnsLabel \o node.return_type)>> ELSE <<>>)

\* SymbolTable.define
define(table, name, symbol_type, value) ==
    [n \in DOMAIN table \cup {name} |->
        IF n = name THEN [type |-> symbol_type, value |-> value] ELSE table[n]]

\* the line a VariableDecl, Assignment or Display emits, given the value's text
StatementLine(node, value) ==
    IF node.node = "VariableDecl" THEN node.name \o <<" ", "=", " ">> \o value
    ELSE IF node.node = "Assignment" THEN node.target \o <<" ", "=", " ">> \o value
    ELSE PrintCall \o value \o <<")">>

-----------------------------------------------------------------------------
(* compile *)

NoResult == [returned |-> FALSE, raised |-> FALSE, text |-> <<>>, err |-> NoError]

\* return python_code
compile_return(text) == [returned |-> TRUE, raised |-> FALSE, text |-> text, err |-> NoError]

\* except SyntaxError as e: every other exception leaves compile
compile_except_SyntaxError(e) ==
    IF e.type = "SyntaxError"
    THEN [returned |-> TRUE, raised |-> FALSE, text |-> CompilationErrorPrefix, err |-> e]
    ELSE [returned |-> FALSE, raised |-> TRUE, text |-> <<>>, err |-> e]

\* except Exception as e: return f"Compilation error: {str(e)}"; the text
\* returned is CompilationErrorPrefix followed by str(err)
compile_except(e) ==
    [returned |-> TRUE, raised |-> FALSE, text |-> CompilationErrorPrefix, err |-> e]

-----------------------------------------------------------------------------
(* Parser: the statement grammar, one operator per loop iteration or       *)
(* straight-line stretch of parse_program, parse_statement and             *)
(* parse_function.  d is the depth of the function the code belongs to.    *)

\* parse_program up to the metadata loop
parse_program_begin(src, P, d) ==
    Bind(eat(src, P, "PROGRAM", d + 1), LAMBDA p : eat(src, p, "BEGIN", d + 1))

\* one iteration of the metadata loop; node is the pair read
parse_metadata(src, P, d) ==
    Bind(eat(src, P, "IDENTIFIER", d + 1),
         LAMBDA k : Bind(eat(src, k, "STRING", d + 1),
         LAMBDA s : POk(s, [key |-> upper(P.tok.value), value |-> k.tok.value])))

\* parse_program after the body loop
parse_program_end(src, P, d) ==
    Bind(eat(src, P, "PROGRAM", d + 1), LAMBDA p : eat(src, p, "END", d + 1))

\* parse_statement that returns None on a comment without eating it
parse_statement_keep_comment(src, P, d) ==
    IF Over(d) THEN PRaise(RecursionErr, P)
    ELSE IF P.tok.type = "COMMENT" THEN POk(P, NoNode)
    ELSE IF P.tok.type \in {"NUM", "STR", "BOOL", "LIST"}
    THEN parse_variable_declaration(src, P, d + 1)
    ELSE IF P.tok.type = "IDENTIFIER" THEN parse_assignment(src, P, d + 1)
    ELSE IF P.tok.type = "DISPLAY" THEN parse_display(src, P, d + 1)
    ELSE error(P, "Unexpected token", "", P.tok.type, d + 1)

\* parse_statement when the current token is not FUNC; node is NoNode for
\* the None that a comment returns
parse_statement(src, P, d) ==
    IF Over(d) THEN PRaise(RecursionErr, P)
    ELSE IF P.tok.type = "COMMENT" THEN eat(src, P, "COMMENT", d + 1)
    ELSE IF P.tok.type \in {"NUM", "STR", "BOOL", "LIST"}
    THEN parse_variable_declaration(src, P, d + 1)
    ELSE IF P.tok.type = "IDENTIFIER" THEN parse_assignment(src, P, d + 1)
    ELSE IF P.tok.type = "DISPLAY" THEN parse_display(src, P, d + 1)
    ELSE error(P, "Unexpected token", "", P.tok.type, d + 1)

\* parse_statement on FUNC and parse_function up to the parameter loop;
\* d is the depth of parse_statement, node is the function's name
parse_function_begin(src, P, d) ==
    IF Over(d + 1) THEN PRaise(RecursionErr, P)
    ELSE Bind(eat(src, P, "FUNC", d + 2),
              LAMBDA f : Bind(eat(src, f, "IDENTIFIER", d + 2),
              LAMBDA i : Bind(eat(src, i, "LPAREN", d + 2),
              LAMBDA l : POk(l, f.tok.value))))

\* the optional comma that ends an iteration of the parameter loop
parse_parameter_comma(src, P, param, d) ==
    IF P.tok.type = "COMMA"
    THEN Bind(eat(src, P, "COMMA", d + 1), LAMBDA c : POk(c, param))
    ELSE POk(P, param)

\* the optional type of a parameter; P is the parser after the name
parse_parameter_type(src, P, param_name, d) ==
    IF P.tok.type = "COLON"
    THEN Bind(eat(src, P, "COLON", d + 1),
              LAMBDA c : Bind(eat(src, c, "IDENTIFIER", d + 1),
              LAMBDA t : parse_parameter_comma(src, t, <<param_name, c.tok.value>>, d)))
    ELSE parse_parameter_comma(src, P, <<param_name, None>>, d)

\* one iteration of the parameter loop; node is the (name, type) pair
parse_parameter(src, P, d) ==
    Bind(eat(src, P, "IDENTIFIER", d + 1),
         LAMBDA n : parse_parameter_type(src, n, P.tok.value, d))

\* the optional return type; P is the parser after the closing parenthesis
parse_return_type(src, P, d) ==
    IF P.tok.type = "RETURN"
    THEN Bind(eat(src, P, "RETURN", d + 1),
              LAMBDA k : Bind(eat(src, k, "IDENTIFIER", d + 1),
              LAMBDA t : POk(t, k.tok.value)))
    ELSE POk(P, None)

\* parse_function between the parameter loop and the body loop; node is
\* the return type
parse_function_signature(src, P, d) ==
    Bind(eat(src, P, "RPAREN", d + 1), LAMBDA r : parse_return_type(src, r, d))
-----------------------------------------------------------------------------
(* The steps of compile.  A step is an operator on the record s of the     *)
(* state (the fields are the variables): <Step>Enabled(s) is where compile *)
(* stands, <Step>(s) is the state after the code of that step has run.     *)

ProgramFrame(phase, description, author, date, body) ==
    [fn |-> "parse_program", phase |-> phase, description |-> description,
     author |-> author, date |-> date, body |-> body]

FunctionFrame(phase, name, params, return_type, body) ==
    [fn |-> "parse_function", phase |-> phase, name |-> name, params |-> params,
     return_type |-> return_type, body |-> body]

\* the state before compile(src) runs
Start(src) ==
    [source |-> src, pc |-> "start", lexer |-> Lexer_init, current_token |-> NoToken,
     frames |-> <<>>, ast |-> NoNode, gen |-> <<>>, output |-> <<>>,
     indent_level |-> 0, symbols |-> <<>>, result |-> NoResult]

Top(s) == s.frames[Len(s.frames)]

\* the parser as the state holds it
PS(s) == [tok |-> s.current_token, lex |-> s.lexer]

\* depth of the parse_program or parse_function call on top of the stack,
\* compile being at depth 1
FrameDepth(s) == 2 * Len(s.frames)

ReplaceTop(s, f) == [s.frames EXCEPT ![Len(s.frames)] = f]

\* an exception reaches compile's except clause; P is the parser it leaves
Fail(s, P, e) ==
    [s EXCEPT !.pc = "done", !.result = compile_except(e), !.lexer = P.lex,
              !.current_token = P.tok, !.frames = <<>>, !.gen = <<>>]

\* the parser moves on to P with its call stack fs
Continue(s, P, fs) == [s EXCEPT !.lexer = P.lex, !.current_token = P.tok, !.frames = fs]

\* K applied to the result r of a parser call in state s, unless the call raised
OnResult(s, r, K(_)) == IF r.raised THEN Fail(s, r, r.err) ELSE K(r)

\* Lexer(source_code); Parser(self.lexer); entry of parse_program
ConstructEnabled(s) == s.pc = "start"

Construct(s) ==
    OnResult(s, advance_token(PS(s), get_next_token(s.source, Lexer_init, 3)),
             LAMBDA r : [s EXCEPT !.pc = "parse", !.lexer = r.lex, !.current_token = r.tok,
                                  !.frames = <<ProgramFrame("begin", None, None, None,
                                                            <<>>)>>])

ParseProgramBeginEnabled(s) == s.pc = "parse" /\ Top(s).phase = "begin"

ParseProgramBegin(s) ==
    OnResult(s, parse_program_begin(s.source, PS(s), FrameDepth(s)),
             LAMBDA r : Continue(s, r, ReplaceTop(s, [Top(s) EXCEPT !.phase = "metadata"])))

DESCRIPTION == <<"D", "E", "S", "C", "R", "I", "P", "T", "I", "O", "N">>
AUTHOR == <<"A", "U", "T", "H", "O", "R">>
DATE == <<"D", "A", "T", "E">>

\* the if / elif chain of the metadata loop on the frame f of parse_program
SetMetadata(f, metadata_type, value) ==
    IF metadata_type = DESCRIPTION THEN [f EXCEPT !.description = value]
    ELSE IF metadata_type = AUTHOR THEN [f EXCEPT !.author = value]
    ELSE IF metadata_type = DATE THEN [f EXCEPT !.date = value]
    ELSE f

ParseMetadataEnabled(s) ==
    s.pc = "parse" /\ Top(s).phase = "metadata" /\ s.current_token.type = "IDENTIFIER"

ParseMetadata(s) ==
    OnResult(s, parse_metadata(s.source, PS(s), FrameDepth(s)),
             LAMBDA r : Continue(s, r, ReplaceTop(s, SetMetadata(Top(s), r.node.key,
                                                                 r.node.value))))

\* the metadata loop ends; body = []
ParseMetadataEndEnabled(s) ==
    s.pc = "parse" /\ Top(s).phase = "metadata" /\ s.current_token.type # "IDENTIFIER"

ParseMetadataEnd(s) == Continue(s, PS(s), ReplaceTop(s, [Top(s) EXCEPT !.phase = "body"]))

\* the token that ends the body loop of the function on top of the stack
Sentinel(s) == IF Top(s).fn = "parse_program" THEN "PROGRAM" ELSE "END"

\* a body loop is about to run an iteration
InBody(s) ==
    s.pc = "parse" /\ Top(s).phase = "body" /\ s.current_token.type # Sentinel(s)

\* if self.current_token.type == TokenType.EOF in the program body loop
ParseProgramEOFEnabled(s) ==
    InBody(s) /\ Top(s).fn = "parse_program" /\ s.current_token.type = "EOF"

ParseProgramEOF(s) ==
    Fail(s, PS(s), error(PS(s), "Unexpected end of file", "", "", FrameDepth(s) + 1).err)

\* one iteration of a body loop whose statement is not a function
ParseStatementEnabled(s) ==
    /\ InBody(s)
    /\ ~ParseProgramEOFEnabled(s)
    /\ s.current_token.type # "FUNC"

ParseStatement(s) ==
    OnResult(s, parse_statement(s.source, PS(s), FrameDepth(s) + 1),
             LAMBDA r : Continue(s, r, ReplaceTop(s,
                 [Top(s) EXCEPT !.body = IF r.node = NoNode THEN @
                                         ELSE Append(@, r.node)])))

\* a body loop meets FUNC: parse_function is entered
ParseFunctionBeginEnabled(s) ==
    /\ InBody(s)
    /\ ~ParseProgramEOFEnabled(s)
    /\ s.current_token.type = "FUNC"

ParseFunctionBegin(s) ==
    OnResult(s, parse_function_begin(s.source, PS(s), FrameDepth(s) + 1),
             LAMBDA r : Continue(s, r, Append(s.frames,
                 FunctionFrame("params", r.node, <<>>, None, <<>>))))

ParseParameterEnabled(s) ==
    s.pc = "parse" /\ Top(s).phase = "params" /\ s.current_token.type # "RPAREN"

ParseParameter(s) ==
    OnResult(s, parse_parameter(s.source, PS(s), FrameDepth(s)),
             LAMBDA r : Continue(s, r, ReplaceTop(s,
                 [Top(s) EXCEPT !.params = Append(@, r.node)])))

ParseFunctionSignatureEnabled(s) ==
    s.pc = "parse" /\ Top(s).phase = "params" /\ s.current_token.type = "RPAREN"

ParseFunctionSignature(s) ==
    OnResult(s, parse_function_signature(s.source, PS(s), FrameDepth(s)),
             LAMBDA r : Continue(s, r, ReplaceTop(s,
                 [Top(s) EXCEPT !.phase = "body", !.return_type = r.node])))

\* the function body loop ends: eat(END), return FunctionDecl to the body
\* loop that called parse_statement
ParseFunctionEndEnabled(s) ==
    /\ s.pc = "parse" /\ Top(s).phase = "body" /\ Top(s).fn = "parse_function"
    /\ s.current_token.type = "END"

\* the call stack once the function on top has returned decl to its caller
Return(fs, decl) ==
    [SubSeq(fs, 1, Len(fs) - 1) EXCEPT ![Len(fs) - 1] = [@ EXCEPT !.body = Append(@, decl)]]

ParseFunctionEnd(s) ==
    OnResult(s, eat(s.source, PS(s), "END", FrameDepth(s) + 1),
             LAMBDA r : Continue(s, r, Return(s.frames,
                 FunctionDecl(Top(s).name, Top(s).params, Top(s).return_type,
                              Top(s).body))))

\* the program body loop ends: eat(PROGRAM), eat(END), return Program
ParseProgramEndEnabled(s) ==
    /\ s.pc = "parse" /\ Top(s).phase = "body" /\ Top(s).fn = "parse_program"
    /\ s.current_token.type = "PROGRAM"

ParseProgramEnd(s) ==
    OnResult(s, parse_program_end(s.source, PS(s), FrameDepth(s)),
             LAMBDA r : [s EXCEPT !.pc = "generate", !.lexer = r.lex,
                                  !.current_token = r.tok, !.frames = <<>>,
                                  !.ast = Program(Top(s).description, Top(s).author,
                                                  Top(s).date, Top(s).body)])

\* the visit_Program or visit_FunctionDecl call on top of the generator's stack
GTop(s) == s.gen[Len(s.gen)]

\* depth of the visit_<Node> call for a statement of GTop's body: visit(ast)
\* is at 2, visit_Program at 3, visit(statement) at 4, visit_<Node> at 5
GenDepth(s) == 2 * Len(s.gen) + 3

\* a loop over a body is about to visit a statement
InLoop(s) == s.pc = "generate" /\ s.gen # <<>> /\ GTop(s).i <= Len(GTop(s).node.body)

Statement(s) == GTop(s).node.body[GTop(s).i]

NextStatement(s) == [s.gen EXCEPT ![Len(s.gen)] = [@ EXCEPT !.i = @ + 1]]

\* CodeGenerator(); visit(ast): visit_Program up to its loop
VisitProgramEnabled(s) == s.pc = "generate" /\ s.gen = <<>>

VisitProgram(s) ==
    [s EXCEPT !.output = @ \o [i \in DOMAIN ProgramHeader(s.ast) |->
                                  emit(s.indent_level, ProgramHeader(s.ast)[i])],
              !.gen = <<[node |-> s.ast, i |-> 1]>>]

\* visit_VariableDecl, visit_Assignment, visit_Display
VisitStatementEnabled(s) == InLoop(s) /\ Statement(s).node # "FunctionDecl"

\* the statement node is visited; value is the result of visit(node.value)
EmitStatement(s, node, value) ==
    IF value.raised THEN Fail(s, PS(s), RecursionErr)
    ELSE [s EXCEPT !.output = Append(@, emit(s.indent_level,
                                             StatementLine(node, value.text))),
                   !.symbols = IF node.node = "VariableDecl"
                               THEN define(@, node.name, node.type, value.text)
                               ELSE @,
                   !.gen = NextStatement(s)]

VisitStatement(s) == EmitStatement(s, Statement(s), visit(Statement(s).value, GenDepth(s) + 1))

\* visit_FunctionDecl up to its loop over the body
VisitFunctionDeclEnabled(s) == InLoop(s) /\ Statement(s).node = "FunctionDecl"

VisitFunctionDecl(s) ==
    IF Over(GenDepth(s) + 1) THEN Fail(s, PS(s), RecursionErr)
    ELSE [s EXCEPT !.output = @ \o FunctionHeader(Statement(s), s.indent_level),
                   !.indent_level = @ + 1,
                   !.gen = Append(@, [node |-> Statement(s), i |-> 1])]

\* visit_FunctionDecl after its loop: dedent, emit(""), back in the caller's loop
VisitFunctionDeclEndEnabled(s) ==
    /\ s.pc = "generate" /\ s.gen # <<>>
    /\ GTop(s).node.node = "FunctionDecl"
    /\ GTop(s).i > Len(GTop(s).node.body)

\* visit_FunctionDecl after its loop, without the dedent
VisitFunctionDeclEnd_no_dedent(s) ==
    [s EXCEPT !.output = Append(@, emit(s.indent_level, <<>>)),
              !.gen = [SubSeq(s.gen, 1, Len(s.gen) - 1) EXCEPT
                           ![Len(s.gen) - 1] = [@ EXCEPT !.i = @ + 1]]]

VisitFunctionDeclEnd(s) ==
    [s EXCEPT !.indent_level = @ - 1,
              !.output = Append(@, emit(s.indent_level - 1, <<>>)),
              !.gen = [SubSeq(s.gen, 1, Len(s.gen) - 1) EXCEPT
                           ![Len(s.gen) - 1] = [@ EXCEPT !.i = @ + 1]]]

\* visit_Program after its loop: return "\n".join(self.output); compile returns it
VisitProgramEndEnabled(s) ==
    /\ s.pc = "generate" /\ s.gen # <<>>
    /\ GTop(s).node.node = "Program"
    /\ GTop(s).i > Len(GTop(s).node.body)

VisitProgramEnd(s) ==
    [s EXCEPT !.pc = "done", !.result = compile_return(join(<<"\n">>, s.output)),
              !.gen = <<>>]

\* what compile does next in state s (compile is deterministic: exactly one
\* step is enabled until it has returned)
Step(s) ==
    IF ConstructEnabled(s) THEN Construct(s)
    ELSE IF ParseProgramBeginEnabled(s) THEN ParseProgramBegin(s)
    ELSE IF ParseMetadataEnabled(s) THEN ParseMetadata(s)
    ELSE IF ParseMetadataEndEnabled(s) THEN ParseMetadataEnd(s)
    ELSE IF ParseProgramEOFEnabled(s) THEN ParseProgramEOF(s)
    ELSE IF ParseStatementEnabled(s) THEN ParseStatement(s)
    ELSE IF ParseFunctionBeginEnabled(s) THEN ParseFunctionBegin(s)
    ELSE IF ParseParameterEnabled(s) THEN ParseParameter(s)
    ELSE IF ParseFunctionSignatureEnabled(s) THEN ParseFunctionSignature(s)
    ELSE IF ParseFunctionEndEnabled(s) THEN ParseFunctionEnd(s)
    ELSE IF ParseProgramEndEnabled(s) THEN ParseProgramEnd(s)
    ELSE IF VisitProgramEnabled(s) THEN VisitProgram(s)
    ELSE IF VisitStatementEnabled(s) THEN VisitStatement(s)
    ELSE IF VisitFunctionDeclEnabled(s) THEN VisitFunctionDecl(s)
    ELSE IF VisitFunctionDeclEndEnabled(s) THEN VisitFunctionDeclEnd(s)
    ELSE VisitProgramEnd(s)

\* NovaScriptCompiler.compile as a function of its argument
RECURSIVE Run(_)
Run(s) == IF s.pc = "done" THEN s ELSE Run(Step(s))

compile(source_code) == Run(Start(source_code)).result

-----------------------------------------------------------------------------
(* The state machine *)

S ==
    [source |-> source, pc |-> pc, lexer |-> lexer, current_token |-> current_token,
     frames |-> frames, ast |-> ast, gen |-> gen, output |-> output,
     indent_level |-> indent_level, symbols |-> symbols, result |-> result]

Becomes(t) ==
    /\ source' = t.source
    /\ pc' = t.pc
    /\ lexer' = t.lexer
    /\ current_token' = t.current_token
    /\ frames' = t.frames
    /\ ast' = t.ast
    /\ gen' = t.gen
    /\ output' = t.output
    /\ indent_level' = t.indent_level
    /\ symbols' = t.symbols
    /\ result' = t.result

ConstructStep == ConstructEnabled(S) /\ Becomes(Construct(S))
ParseProgramBeginStep == ParseProgramBeginEnabled(S) /\ Becomes(ParseProgramBegin(S))
ParseMetadataStep == ParseMetadataEnabled(S) /\ Becomes(ParseMetadata(S))
ParseMetadataEndStep == ParseMetadataEndEnabled(S) /\ Becomes(ParseMetadataEnd(S))
ParseProgramEOFStep == ParseProgramEOFEnabled(S) /\ Becomes(ParseProgramEOF(S))
ParseStatementStep == ParseStatementEnabled(S) /\ Becomes(ParseStatement(S))
ParseFunctionBeginStep == ParseFunctionBeginEnabled(S) /\ Becomes(ParseFunctionBegin(S))
ParseParameterStep == ParseParameterEnabled(S) /\ Becomes(ParseParameter(S))
ParseFunctionSignatureStep ==
    ParseFunctionSignatureEnabled(S) /\ Becomes(ParseFunctionSignature(S))
ParseFunctionEndStep == ParseFunctionEndEnabled(S) /\ Becomes(ParseFunctionEnd(S))
ParseProgramEndStep == ParseProgramEndEnabled(S) /\ Becomes(ParseProgramEnd(S))
VisitProgramStep == VisitProgramEnabled(S) /\ Becomes(VisitProgram(S))
VisitStatementStep == VisitStatementEnabled(S) /\ Becomes(VisitStatement(S))
VisitFunctionDeclStep == VisitFunctionDeclEnabled(S) /\ Becomes(VisitFunctionDecl(S))
VisitFunctionDeclEndStep ==
    VisitFunctionDeclEndEnabled(S) /\ Becomes(VisitFunctionDeclEnd(S))
VisitProgramEndStep == VisitProgramEndEnabled(S) /\ Becomes(VisitProgramEnd(S))

Next ==
    \/ ConstructStep
    \/ ParseProgramBeginStep
    \/ ParseMetadataStep
    \/ ParseMetadataEndStep
    \/ ParseProgramEOFStep
    \/ ParseStatementStep
    \/ ParseFunctionBeginStep
    \/ ParseParameterStep
    \/ ParseFunctionSignatureStep
    \/ ParseFunctionEndStep
    \/ ParseProgramEndStep
    \/ VisitProgramStep
    \/ VisitStatementStep
    \/ VisitFunctionDeclStep
    \/ VisitFunctionDeclEndStep
    \/ VisitProgramEndStep

\* compile is called with src
Called(src) ==
    /\ source = src
    /\ pc = Start(src).pc
    /\ lexer = Start(src).lexer
    /\ current_token = Start(src).current_token
    /\ frames = Start(src).frames
    /\ ast = Start(src).ast
    /\ gen = Start(src).gen
    /\ output = Start(src).output
    /\ indent_level = Start(src).indent_level
    /\ symbols = Start(src).symbols
    /\ result = Start(src).result

-----------------------------------------------------------------------------
(* Source texts.  Words are joined with single spaces, lines with newlines. *)

Words(ws) == join(<<" ">>, ws)

Lines(ls) == join(<<"\n">>, ls)

W_PROGRAM == <<"P", "R", "O", "G", "R", "A", "M">>
W_BEGIN == <<"B", "E", "G", "I", "N">>
W_END == <<"E", "N", "D">>
W_func == <<"f", "u", "n", "c">>
W_return == <<"r", "e", "t", "u", "r", "n">>
W_display == <<"d", "i", "s", "p", "l", "a", "y">>
W_num == <<"n", "u", "m">>

\* programs that together take every step of compile
\*   PROGRAM BEGIN
\*   author "me"
\*   #c
\*   func f(a:t, b) return n
\*   func g()
\*   display 1
\*   END
\*   num x = 1 + 2 * 3
\*   END
\*   x = "s"
\*   PROGRAM END
FullProgram ==
    <<"P", "R", "O", "G", "R", "A", "M", " ", "B", "E", "G", "I", "N", "\n", "a", "u", "t",
      "h", "o", "r", " ", "\"", "m", "e", "\"", "\n", "#", "c", "\n", "f", "u", "n", "c",
      " ", "f", "(", "a", ":", "t", ",", " ", "b", ")", " ", "r", "e", "t", "u", "r", "n",
      " ", "n", "\n", "f", "u", "n", "c", " ", "g", "(", ")", "\n", "d", "i", "s", "p", "l",
      "a", "y", " ", "1", "\n", "E", "N", "D", "\n", "n", "u", "m", " ", "x", " ", "=", " ",
      "1", " ", "+", " ", "2", " ", "*", " ", "3", "\n", "E", "N", "D", "\n", "x", " ", "=",
      " ", "\"", "s", "\"", "\n", "P", "R", "O", "G", "R", "A", "M", " ", "E", "N", "D">>

\*   PROGRAM BEGIN
\*   display 1
TruncatedProgram ==
    <<"P", "R", "O", "G", "R", "A", "M", " ", "B", "E", "G", "I", "N", "\n", "d", "i", "s",
      "p", "l", "a", "y", " ", "1", "\n">>

\*   PROGRAM BEGIN
\*   func f()
\*   display 1
TruncatedFunction ==
    <<"P", "R", "O", "G", "R", "A", "M", " ", "B", "E", "G", "I", "N", "\n", "f", "u", "n",
      "c", " ", "f", "(", ")", "\n", "d", "i", "s", "p", "l", "a", "y", " ", "1", "\n">>

Corpus == {FullProgram, TruncatedProgram, TruncatedFunction}

-----------------------------------------------------------------------------
(* Specification Spec: compile runs on short word sequences (the empty     *)
(* source, sources the lexer, the parser or float reject), on operator     *)
(* chains and nested parentheses up to the recursion limit and beyond, and *)
(* on the corpus.                                                          *)

MaxWords == 3
MaxChain == 12
MaxNest == 7

Menu ==
    {W_display, <<"x">>, <<"=">>, <<"1">>, <<"1", ".", "2", ".", "3">>, <<"+">>, <<"@">>,
     <<"\"", "s", "\"">>}

\* the sequences of at most n words of the menu
RECURSIVE WordSeqs(_)
WordSeqs(n) ==
    IF n = 0 THEN {<<>>}
    ELSE WordSeqs(n - 1) \cup {Append(ws, w) : ws \in WordSeqs(n - 1), w \in Menu}

ShortSources ==
    {Words(ws) : ws \in WordSeqs(1)}
    \cup {Words(<<W_PROGRAM, W_BEGIN>> \o ws \o tail) :
            ws \in WordSeqs(MaxWords), tail \in {<<>>, <<W_PROGRAM, W_END>>}}

\* a + a + ... with n operators
RECURSIVE Chain(_)
Chain(n) == IF n = 0 THEN <<"a">> ELSE Chain(n - 1) \o <<" ", "+", " ", "a">>

\* ((...a...)) with n pairs of parentheses
RECURSIVE Nest(_)
Nest(n) == IF n = 0 THEN <<"a">> ELSE <<"(">> \o Nest(n - 1) \o <<")">>

\* display e as the only statement of a program, or of a function of it
DeepSources ==
    LET Exprs == {Chain(n) : n \in 0..MaxChain} \cup {Nest(n) : n \in 0..MaxNest} IN
    {Lines(<<Words(<<W_PROGRAM, W_BEGIN>>), Words(<<W_display, e>>),
             Words(<<W_PROGRAM, W_END>>)>>) : e \in Exprs}
    \cup {Lines(<<Words(<<W_PROGRAM, W_BEGIN>>), Words(<<W_func, <<"f", "(", ")">> >>),
                  Words(<<W_display, e>>), W_END, Words(<<W_PROGRAM, W_END>>)>>) :
            e \in Exprs}

Sources == Corpus \cup ShortSources \cup DeepSources

Init == \E src \in Sources : Called(src)

Spec == Init /\ [][Next]_vars

-----------------------------------------------------------------------------
(* C1 *)

\* the number of lines the generator emits for a statement, for a body, for
\* a program
RECURSIVE LineCount(_)
RECURSIVE BodyLineCount(_)
LineCount(node) ==
    IF node.node = "FunctionDecl"
    THEN 1 + Cardinality({i \in DOMAIN node.params : Truthy(node.params[i][2])})
           + (IF Truthy(node.return_type) THEN 1 ELSE 0)
           + BodyLineCount(node.body) + 1
    ELSE 1

BodyLineCount(body) ==
    IF body = <<>> THEN 0 ELSE LineCount(body[1]) + BodyLineCount(Tail(body))

IsPrefix(p, t) == Len(p) <= Len(t) /\ SubSeq(t, 1, Len(p)) = p

\* the value compile returned is the generated text of the whole program
ReturnedGenerated ==
    /\ result.err = NoError
    /\ ast.node = "Program"
    /\ Len(output) = Len(ProgramHeader(ast)) + BodyLineCount(ast.body)
    /\ result.text = join(<<"\n">>, output)
    /\ IsPrefix(GeneratedMarker, result.text)

\* the value compile returned is "Compilation error: " and the message of
\* the exception, and nothing of the lines generated so far
ReturnedError ==
    /\ result.err # NoError
    /\ result.text = CompilationErrorPrefix

\* C1: compile never raises; once it is over it has returned either the
\* complete generated text of the program or a "Compilation error: " string
\* that holds none of the lines generated before the failure.
C1_CompileReturnsTextOrError ==
    /\ ~result.raised
    /\ pc = "done" => result.returned /\ (ReturnedGenerated \/ ReturnedError)
    /\ pc # "done" => result = NoResult

\* the generator failed after it had emitted lines, and compile returned
\* the error string only
C1_Witness ==
    /\ pc = "done"
    /\ result.returned
    /\ result.err.type = "RecursionError"
    /\ Len(output) >= 2
    /\ result.text = CompilationErrorPrefix

-----------------------------------------------------------------------------
(* C2: characters no lexical rule accepts.  Specification SpecC2 runs      *)
(* compile on programs in which one such character is put at every         *)
(* position in turn, and on the corpus.                                    *)

\* the characters get_next_token has a rule for
HasRule(c) ==
    isspace(c) \/ isdigit(c) \/ isalpha(c) \/ c \in {"_", "\"", "#", "="}
    \/ c \in DOMAIN Punctuation

InvalidChars == {"@", "!"}

\*   PROGRAM BEGIN
\*   display "ab" # c
\*   x = 1 /*d*/
\*   PROGRAM END y z
CommentedProgram ==
    <<"P", "R", "O", "G", "R", "A", "M", " ", "B", "E", "G", "I", "N", "\n", "d", "i", "s",
      "p", "l", "a", "y", " ", "\"", "a", "b", "\"", " ", "#", " ", "c", "\n", "x", " ", "=",
      " ", "1", " ", "/", "*", "d", "*", "/", "\n", "P", "R", "O", "G", "R", "A", "M", " ",
      "E", "N", "D", " ", "y", " ", "z">>

\*   PROGRAM BEGIN
\*   PROGRAM END /*c
OpenCommentProgram ==
    <<"P", "R", "O", "G", "R", "A", "M", " ", "B", "E", "G", "I", "N", "\n", "P", "R", "O",
      "G", "R", "A", "M", " ", "E", "N", "D", " ", "/", "*", "c">>

\*   PROGRAM BEGIN
\*   PROGRAM END "s
OpenStringProgram ==
    <<"P", "R", "O", "G", "R", "A", "M", " ", "B", "E", "G", "I", "N", "\n", "P", "R", "O",
      "G", "R", "A", "M", " ", "E", "N", "D", " ", "\"", "s">>

\* text with c put after its first i characters
Insert(text, i, c) == SubSeq(text, 1, i) \o <<c>> \o SubSeq(text, i + 1, Len(text))

SourcesC2 ==
    {Insert(b, i, c) : b \in {CommentedProgram},
                       i \in 0..Len(CommentedProgram), c \in InvalidChars}
    \cup {Insert(OpenCommentProgram, i, "@") : i \in 0..Len(OpenCommentProgram)}
    \cup {Insert(OpenStringProgram, i, "@") : i \in 0..Len(OpenStringProgram)}

InitC2 == \E src \in Corpus \cup SourcesC2 : Called(src)

SpecC2 == InitC2 /\ [][Next]_vars

\* the least element of the set Js of numbers, or default when Js is empty
First(Js, default) == IF Js = {} THEN default ELSE CHOOSE j \in Js : \A m \in Js : j <= m

\* position j of the text opens a string literal or a comment
Opens(text, j) ==
    \/ text[j] \in {"\"", "#"}
    \/ text[j] = "/" /\ j < Len(text) /\ text[j + 1] = "*"

\* the last position of the string literal or comment that position o opens
Closes(text, o) ==
    IF text[o] = "\"" THEN First({j \in o + 1..Len(text) : text[j] = "\""}, Len(text))
    ELSE IF text[o] = "#"
    THEN First({j \in o..Len(text) : text[j] = "\n"}, Len(text) + 1) - 1
    ELSE First({j \in o + 2..Len(text) - 1 : text[j] = "*" /\ text[j + 1] = "/"},
               Len(text) - 1) + 1

\* The positions of the text from k on that lie in a string literal or in a
\* comment (delimiters included), read off the text alone; position k is
\* outside both.
RECURSIVE Quoted(_, _)
Quoted(text, k) ==
    LET o == First({j \in k..Len(text) : Opens(text, j)}, 0) IN
    IF o = 0 THEN {} ELSE o..Closes(text, o) \cup Quoted(text, Closes(text, o) + 1)

\* the positions of the source that hold a character without a lexical rule
InvalidPositions == {i \in DOMAIN source : ~HasRule(source[i])}

\* C2 as stated: a source that holds a character no lexical rule accepts, at
\* any position whatsoever, makes compile return a "Compilation error:"
\* string and never generated code.
C2_InvalidCharacterAnywhere ==
    pc = "done" /\ InvalidPositions # {} => ReturnedError

\* C2 amended: compile returns generated code only if every character
\* without a lexical rule lies inside a string literal or a comment, or
\* beyond the last character the lexer has read (the lexer reads one token
\* past the closing PROGRAM END and no further); such a character in code
\* the lexer reads makes compile return a "Compilation error:" string.
C2_InvalidCharacterRead ==
    pc = "done" /\ ~ReturnedError =>
        \A i \in InvalidPositions :
            i \in Quoted(source, 1) \/ i > lexer.pos

\* compile has returned the lexer's error for a character in code
C2_Witness ==
    /\ pc = "done"
    /\ ReturnedError
    /\ result.err.message = "Invalid character"
    /\ \E i \in InvalidPositions :
           /\ i \notin Quoted(source, 1)
           /\ i = lexer.pos + 1
           /\ result.err.got = source[i]
    /\ output = <<>>

-----------------------------------------------------------------------------
(* Specification SpecBody: compile runs on the programs PROGRAM BEGIN, at  *)
(* most MaxLines lines of the menu, and PROGRAM END or nothing; and on the *)
(* corpus.                                                                 *)

MaxLines == 3

\*   x = 1  |  author "me"  |  display 1  |  func f()  |  END  |  #c
LineMenu ==
    {<<"x", " ", "=", " ", "1">>,
     <<"a", "u", "t", "h", "o", "r", " ", "\"", "m", "e", "\"">>,
     <<"d", "i", "s", "p", "l", "a", "y", " ", "1">>,
     <<"f", "u", "n", "c", " ", "f", "(", ")">>,
     <<"E", "N", "D">>,
     <<"#", "c">>}

\* the sequences of at most n lines of the menu
RECURSIVE LineSeqs(_, _)
LineSeqs(n, menu) ==
    IF n = 0 THEN {<<>>}
    ELSE LineSeqs(n - 1, menu)
         \cup {Append(ls, l) : ls \in LineSeqs(n - 1, menu), l \in menu}

SourcesBody ==
    {Lines(<<Words(<<W_PROGRAM, W_BEGIN>>)>> \o ls \o tail) :
        ls \in LineSeqs(MaxLines, LineMenu),
        tail \in {<<>>, <<Words(<<W_PROGRAM, W_END>>)>>}}

InitBody == \E src \in Corpus \cup SourcesBody : Called(src)

SpecBody == InitBody /\ [][Next]_vars

\* the token that follows the current token in the source
Lookahead == get_next_token(source, lexer, 1)

\* the parser stands at the head of a metadata-shaped pair
AtPair ==
    /\ current_token.type = "IDENTIFIER"
    /\ ~Lookahead.raised
    /\ Lookahead.tok.type = "STRING"

\* the metadata loop of parse_program is about to test its condition
InMetadataLoop == pc = "parse" /\ frames[Len(frames)].phase = "metadata"

\* a body loop is about to test its condition
InBodyLoop == pc = "parse" /\ frames[Len(frames)].phase = "body"

\* C3: the metadata loop consumes a pair only while the current token is an
\* IDENTIFIER immediately followed by a STRING; on an IDENTIFIER followed by
\* another token it ends without error, nothing consumed, and the
\* IDENTIFIER is the head of the first statement.
C3_MetadataLoopStopsAtStatement ==
    [][InMetadataLoop /\ current_token.type = "IDENTIFIER" /\ ~Lookahead.raised
       /\ Lookahead.tok.type # "STRING"
       => /\ pc' = "parse"
          /\ current_token' = current_token
          /\ lexer' = lexer
          /\ frames' = [frames EXCEPT ![Len(frames)].phase = "body"]]_vars

\* C4 as stated: a metadata-shaped pair at a statement head of a body fails
\* with the "Unexpected token" error raised at the statement head, and no
\* Program is produced.
C4_PairInBodyUnexpectedToken ==
    [][InBodyLoop /\ AtPair
       => /\ pc' = "done"
          /\ result'.err = SyntaxErr("Unexpected token", "", "IDENTIFIER",
                                     current_token.line, current_token.column)
          /\ ast' = NoNode]_vars

\* C4 amended: a metadata-shaped pair at a statement head of a body is
\* parsed as an assignment; parsing fails with "Expected ASSIGN, got STRING"
\* raised by eat at the STRING token, no Program is produced and the
\* metadata read so far is not changed.
C4_PairInBodyExpectedAssign ==
    [][InBodyLoop /\ AtPair
       => /\ pc' = "done"
          /\ result' = compile_except(SyntaxErr("Expected", "ASSIGN", "STRING",
                                                Lookahead.tok.line, Lookahead.tok.column))
          /\ current_token' = Lookahead.tok
          /\ ast' = NoNode]_vars

\* compile has failed at the STRING of a pair that follows a statement
C4_Witness ==
    /\ pc = "done"
    /\ result.err.message = "Expected"
    /\ result.err.expected = "ASSIGN"
    /\ current_token.type = "STRING"
    /\ result.err.line = current_token.line
    /\ result.err.line > 2
    /\ ast = NoNode

\* C6: when a body loop meets EOF, in the program body or in a function
\* body, parsing fails with the "Unexpected end of file" error.
C6_EOFInBodyUnexpectedEndOfFile ==
    [][InBodyLoop /\ current_token.type = "EOF"
       => /\ pc' = "done"
          /\ result'.err.message = "Unexpected end of file"
          /\ ast' = NoNode]_vars

-----------------------------------------------------------------------------
(* C5: expressions.  Specification SpecC5 runs compile on the programs     *)
(* whose only statement displays an expression of at most MaxOps           *)
(* operators, with or without parentheses around each compound             *)
(* sub-expression, and on the corpus.  An expression is a sequence of      *)
(* one-character tokens; its operands are, in source order, a 2 c 4 e ...  *)

MaxOps == 2

OperandSeq == <<"a", "2", "c", "4", "e", "6", "g", "8">>

Operators == {"+", "-", "*", "/"}

\* the expressions of n operators whose first operand is the k-th one
RECURSIVE Expressions(_, _)
Parenthesized(n, k) ==
    IF n = 0 THEN Expressions(n, k)
    ELSE Expressions(n, k) \cup {<<"(">> \o e \o <<")">> : e \in Expressions(n, k)}

Expressions(n, k) ==
    IF n = 0 THEN {<<OperandSeq[k]>>}
    ELSE UNION {{l \o <<o>> \o r : l \in Parenthesized(m, k),
                                   r \in Parenthesized(n - 1 - m, k + m + 1),
                                   o \in Operators} : m \in 0..n - 1}

ExpressionsC5 == UNION {Parenthesized(n, 1) : n \in 0..MaxOps}

\* the program that displays the expression e
DisplayProgram(e) ==
    Lines(<<Words(<<W_PROGRAM, W_BEGIN>>),
            Words(<<W_display>> \o [i \in DOMAIN e |-> <<e[i]>>]),
            Words(<<W_PROGRAM, W_END>>)>>)

SourcesC5 == {DisplayProgram(e) : e \in ExpressionsC5}

InitC5 == \E src \in Corpus \cup SourcesC5 : Called(src)

SpecC5 == InitC5 /\ [][Next]_vars

\* the pieces of the text between the separators
RECURSIVE Split(_, _)
Split(text, sep) ==
    LET i == First({j \in DOMAIN text : text[j] = sep}, 0) IN
    IF i = 0 THEN <<text>>
    ELSE <<SubSeq(text, 1, i - 1)>> \o Split(SubSeq(text, i + 1, Len(text)), sep)

\* the tokens of the expression that the second line of the text displays
ExpressionOf(text) ==
    LET words == Split(Split(text, "\n")[2], " ") IN
    [i \in 1..Len(words) - 1 |-> words[i + 1][1]]

\* the number of parentheses open at token i of the expression e
Depth(e, i) ==
    Cardinality({j \in 1..i - 1 : e[j] = "("}) - Cardinality({j \in 1..i - 1 : e[j] = ")"})

\* the positions of the operators of ops that no parentheses enclose
TopLevel(e, ops) == {i \in DOMAIN e : e[i] \in ops /\ Depth(e, i) = 0}

Last(Js) == CHOOSE j \in Js : \A m \in Js : m <= j

\* where the expression e splits: at its last + or - outside parentheses,
\* or without one at its last * or / outside parentheses
SplitAt(e) ==
    IF TopLevel(e, {"+", "-"}) # {} THEN Last(TopLevel(e, {"+", "-"}))
    ELSE Last(TopLevel(e, {"*", "/"}))

\* the text of an operand: a number is written as a float
OperandText(c) == IF c \in {"2", "4", "6", "8"} THEN <<c, ".", "0">> ELSE <<c>>

\* The full parenthesization of the expression e: * and / bind tighter than
\* + and -, operators of equal precedence associate to the left, a
\* parenthesized sub-expression is one operand.
RECURSIVE FullParenthesization(_)
FullParenthesization(e) ==
    IF Len(e) = 1 THEN OperandText(e[1])
    ELSE IF TopLevel(e, Operators) = {}
    THEN FullParenthesization(SubSeq(e, 2, Len(e) - 1))
    ELSE <<"(">> \o FullParenthesization(SubSeq(e, 1, SplitAt(e) - 1))
         \o <<" ", e[SplitAt(e)], " ">>
         \o FullParenthesization(SubSeq(e, SplitAt(e) + 1, Len(e))) \o <<")">>

\* the generated text of the program that displays an expression whose
\* generated text is value
DisplayText(value) == Lines(<<GeneratedMarker, <<>>, PrintCall \o value \o <<")">> >>)

\* C5: the generated text of an expression is its full parenthesization,
\* with * and / binding tighter than + and -, equal precedence associating
\* to the left, parenthesized sub-expressions kept as one operand and the
\* operands in source order.
C5_FullParenthesization ==
    pc = "done" /\ source \in SourcesC5
        => result = compile_return(DisplayText(FullParenthesization(ExpressionOf(source))))

\* compile has returned print(((a + 2.0) * c)) for display ( a + 2 ) * c
C5_Witness ==
    /\ pc = "done"
    /\ source \in SourcesC5
    /\ ExpressionOf(source) = <<"(", "a", "+", "2", ")", "*", "c">>
    /\ result.text = DisplayText(<<"(", "(", "a", " ", "+", " ", "2", ".", "0", ")", " ",
                                   "*", " ", "c", ")">>)

-----------------------------------------------------------------------------
(* C7: parameter lists.  Specification SpecC7 runs compile on the programs *)
(* whose only statement is a function with an empty body and at most       *)
(* MaxParamTokens tokens between its parentheses, and on the corpus.       *)

MaxParamTokens == 3

ParamTokenMenu == {"a", "b", ",", ":"}

\* the sequences of at most n tokens of the menu
RECURSIVE ParamTokenSeqs(_)
ParamTokenSeqs(n) ==
    IF n = 0 THEN {<<>>}
    ELSE ParamTokenSeqs(n - 1)
         \cup {Append(ts, t) : ts \in ParamTokenSeqs(n - 1), t \in ParamTokenMenu}

\*   PROGRAM BEGIN
\*   func f ( <tokens> )
\*   END
\*   PROGRAM END
FunctionProgram(ts) ==
    Lines(<<Words(<<W_PROGRAM, W_BEGIN>>),
            Words(<<W_func, <<"f">>, <<"(">> >> \o [i \in DOMAIN ts |-> <<ts[i]>>]
                  \o << <<")">> >>),
            W_END,
            Words(<<W_PROGRAM, W_END>>)>>)

SourcesC7 == {FunctionProgram(ts) : ts \in ParamTokenSeqs(MaxParamTokens)}

InitC7 == \E src \in Corpus \cup SourcesC7 : Called(src)

SpecC7 == InitC7 /\ [][Next]_vars

\* the tokens between the parentheses of the function on the second line
ParamTokensOf(text) ==
    LET words == Split(Split(text, "\n")[2], " ") IN
    [i \in 1..Len(words) - 4 |-> words[i + 3][1]]

IsIdentifierToken(t) == t \in {"a", "b"}

\* IDENTIFIER (COLON IDENTIFIER)?
IsParam(ts) ==
    \/ Len(ts) = 1 /\ IsIdentifierToken(ts[1])
    \/ Len(ts) = 3 /\ IsIdentifierToken(ts[1]) /\ ts[2] = ":" /\ IsIdentifierToken(ts[3])

\* param (COMMA param)*
RECURSIVE IsParams(_)
IsParams(ts) ==
    \E n \in {1, 3} :
        /\ n <= Len(ts)
        /\ IsParam(SubSeq(ts, 1, n))
        /\ \/ n = Len(ts)
           \/ n + 1 <= Len(ts) /\ ts[n + 1] = "," /\ IsParams(SubSeq(ts, n + 2, Len(ts)))

\* the grammar of a parameter list: params?
IsParamList(ts) == ts = <<>> \/ IsParams(ts)

\* C7: parse_function accepts the tokens between LPAREN and RPAREN only if
\* they match the grammar params? (parameters separated by exactly one
\* COMMA, none after the last); every other sequence is rejected with a
\* parse error.
C7_ParameterListGrammar ==
    pc = "done" /\ source \in SourcesC7
        => (~ReturnedError <=> IsParamList(ParamTokensOf(source)))

-----------------------------------------------------------------------------
(* C8: function blocks.  Specification SpecC8 runs compile on the programs *)
(* of at most MaxGenLines lines that open functions (with and without      *)
(* parameter and return types), display a value or close a function, and   *)
(* on the corpus.                                                          *)

MaxGenLines == 4

\*   func f(a:t, b) return n  |  func g()  |  display 1  |  END
GenLineMenu ==
    {<<"f", "u", "n", "c", " ", "f", "(", "a", ":", "t", ",", " ", "b", ")", " ", "r", "e",
       "t", "u", "r", "n", " ", "n">>,
     <<"f", "u", "n", "c", " ", "g", "(", ")">>,
     <<"d", "i", "s", "p", "l", "a", "y", " ", "1">>,
     <<"E", "N", "D">>}

SourcesC8 ==
    {Lines(<<Words(<<W_PROGRAM, W_BEGIN>>)>> \o ls \o <<Words(<<W_PROGRAM, W_END>>)>>) :
        ls \in LineSeqs(MaxGenLines, GenLineMenu)}

InitC8 == \E src \in Corpus \cup SourcesC8 : Called(src)

SpecC8 == InitC8 /\ [][Next]_vars

\* the number of spaces a line starts with
LeadingSpaces(line) == First({j \in DOMAIN line : line[j] # " "}, Len(line) + 1) - 1

\* what a line of the output is, read off its text: the number of spaces it
\* starts with, and the kind of what follows them
Describe(line) ==
    LET rest == SubSeq(line, LeadingSpaces(line) + 1, Len(line)) IN
    [spaces |-> LeadingSpaces(line),
     kind |-> IF rest = <<>> THEN "blank"
              ELSE IF IsPrefix(DefKeyword, rest) THEN "def"
              ELSE IF IsPrefix(<<"#", " ">>, rest) THEN "comment"
              ELSE "statement"]

\* the number of parameters with a type, plus one for a return type
CommentCount(node) ==
    Cardinality({i \in DOMAIN node.params : node.params[i][2] # None})
    + (IF node.return_type # None THEN 1 ELSE 0)

\* The lines of a body whose statements have depth enclosing FunctionDecl
\* nodes: a statement is one line; a function is one def line, its comment
\* lines (extra levels deeper than the def line), the lines of its body and
\* one blank line.
RECURSIVE BlockLines(_, _, _)
BlockLines(body, depth, extra) ==
    IF body = <<>> THEN <<>>
    ELSE (IF body[1].node = "FunctionDecl"
          THEN <<[spaces |-> 4 * depth, kind |-> "def"]>>
               \o [i \in 1..CommentCount(body[1]) |->
                      [spaces |-> 4 * (depth + extra), kind |-> "comment"]]
               \o BlockLines(body[1].body, depth + 1, extra)
               \o <<[spaces |-> 4 * depth, kind |-> "blank"]>>
          ELSE <<[spaces |-> 4 * depth, kind |-> "statement"]>>)
         \o BlockLines(Tail(body), depth, extra)

\* what the lines of the output after the header block are
OutputLines ==
    [i \in 1..Len(output) - Len(ProgramHeader(ast)) |->
        Describe(output[i + Len(ProgramHeader(ast))])]

\* the indent level is never negative, and while the generator runs it is
\* the number of FunctionDecl visits that have not returned
IndentLevelTracksVisits ==
    /\ indent_level >= 0
    /\ pc = "generate" => indent_level = (IF gen = <<>> THEN 0 ELSE Len(gen) - 1)
    /\ pc = "done" /\ ~ReturnedError => indent_level = 0

\* C8 as stated: every FunctionDecl gives one def line, its comment lines,
\* the lines of its body and one blank line; every line is prefixed by 4
\* spaces times the number of FunctionDecl nodes that enclose the statement
\* that emitted it; the indent level is never negative and is back to its
\* value before a visit once the visit has returned.
C8_LinesAtStatementDepth ==
    /\ IndentLevelTracksVisits
    /\ pc = "done" /\ ~ReturnedError => OutputLines = BlockLines(ast.body, 0, 0)

\* C8 amended: as stated, except that the parameter and return comment
\* lines of a FunctionDecl are emitted after indent() and so are prefixed by
\* 4 spaces times one more than the number of FunctionDecl nodes that
\* enclose it: they line up with its body.
C8_CommentsAtBodyDepth ==
    /\ IndentLevelTracksVisits
    /\ pc = "done" /\ ~ReturnedError => OutputLines = BlockLines(ast.body, 0, 1)

\* compile has returned the text of a function nested in another one, with
\* a comment line 8 spaces deep and the blank line of the inner function 4
\* spaces deep
C8_Witness ==
    /\ pc = "done"
    /\ ~ReturnedError
    /\ indent_level = 0
    /\ \E i \in DOMAIN OutputLines :
           /\ OutputLines[i] = [spaces |-> 4, kind |-> "def"]
           /\ OutputLines[i + 1] = [spaces |-> 8, kind |-> "comment"]
    /\ [spaces |-> 4, kind |-> "blank"] \in Range(OutputLines)

-----------------------------------------------------------------------------
(* C9: the header block.  Specification SpecC9 runs compile on the         *)
(* programs of at most MaxPairs metadata pairs and one display statement,  *)
(* and on the corpus.                                                      *)

MaxPairs == 2

Pair(key, value) == [key |-> key, value |-> value]

\*   description ""  |  description "x"  |  author "me"  |  AUTHOR "you"  |
\*   Date "d"  |  foo "v"
PairMenu ==
    {Pair(<<"d", "e", "s", "c", "r", "i", "p", "t", "i", "o", "n">>, <<>>),
     Pair(<<"d", "e", "s", "c", "r", "i", "p", "t", "i", "o", "n">>, <<"x">>),
     Pair(<<"a", "u", "t", "h", "o", "r">>, <<"m", "e">>),
     Pair(<<"A", "U", "T", "H", "O", "R">>, <<"y", "o", "u">>),
     Pair(<<"D", "a", "t", "e">>, <<"d">>),
     Pair(<<"f", "o", "o">>, <<"v">>)}

\* the sequences of at most n pairs of the menu
RECURSIVE PairSeqs(_)
PairSeqs(n) ==
    IF n = 0 THEN {<<>>}
    ELSE PairSeqs(n - 1) \cup {Append(ps, p) : ps \in PairSeqs(n - 1), p \in PairMenu}

PairLine(p) == Words(<<p.key, <<"\"">> \o p.value \o <<"\"">> >>)

MetadataProgram(ps) ==
    Lines(<<Words(<<W_PROGRAM, W_BEGIN>>)>> \o [i \in DOMAIN ps |-> PairLine(ps[i])]
          \o <<Words(<<W_display, <<"1">> >>), Words(<<W_PROGRAM, W_END>>)>>)

InitC9 == \E src \in Corpus \cup {MetadataProgram(ps) : ps \in PairSeqs(MaxPairs)} : Called(src)

SpecC9 == InitC9 /\ [][Next]_vars

\* the pairs of ps whose key is K in upper case
PairsOf(ps, K) == {i \in DOMAIN ps : upper(ps[i].key) = K}

\* one comment line for the last pair of key K, if there is one
HeaderLine(ps, K, label) ==
    IF PairsOf(ps, K) = {} THEN <<>>
    ELSE <<label \o ps[CHOOSE i \in PairsOf(ps, K) : \A j \in PairsOf(ps, K) : j <= i].value>>

\* C9: the header block is the generated-marker line and then one comment
\* line for each of description, author and date that has a pair in the
\* source, whatever its value (the empty string included), the key matched
\* whatever its case and the last pair winning, in the order description,
\* author, date; pairs of another key add no line.
C9_HeaderLinePerPresentPair ==
    \A ps \in PairSeqs(MaxPairs) :
        pc = "done" /\ source = MetadataProgram(ps) =>
            /\ ~ReturnedError
            /\ SubSeq(output, 1, Len(output) - 2)
                   = <<GeneratedMarker>>
                     \o HeaderLine(ps, DESCRIPTION, DescriptionLabel)
                     \o HeaderLine(ps, AUTHOR, AuthorLabel)
                     \o HeaderLine(ps, DATE, DateLabel)

-----------------------------------------------------------------------------
(* C10: comments.  Specification SpecC10 runs compile on two programs that *)
(* compile, and on every program obtained from one of them by inserting a  *)
(* block comment, or a line comment and its newline, before a token or     *)
(* after the last token of a line.                                         *)

\*   PROGRAM BEGIN
\*   display 1
\*   PROGRAM END
SmallProgram ==
    <<<<W_PROGRAM, W_BEGIN>>,
      <<W_display, <<"1">> >>,
      <<W_PROGRAM, W_END>> >>

\*   PROGRAM BEGIN
\*   author "me"
\*   date "d"
\*   func f ( a : t , b ) return n
\*   display 1 + 2
\*   END
\*   x = ( 3 )
\*   PROGRAM END
LargeProgram ==
    <<<<W_PROGRAM, W_BEGIN>>,
      <<<<"a", "u", "t", "h", "o", "r">>, <<"\"", "m", "e", "\"">> >>,
      <<<<"d", "a", "t", "e">>, <<"\"", "d", "\"">> >>,
      <<W_func, <<"f">>, <<"(">>, <<"a">>, <<":">>, <<"t">>, <<",">>, <<"b">>, <<")">>,
        W_return, <<"n">> >>,
      <<W_display, <<"1">>, <<"+">>, <<"2">> >>,
      <<W_END>>,
      <<<<"x">>, <<"=">>, <<"(">>, <<"3">>, <<")">> >>,
      <<W_PROGRAM, W_END>> >>

BasePrograms == {SmallProgram, LargeProgram}

\*   /*c*/  |  #c and the newline that ends it
CommentTexts == {<<"/", "*", "c", "*", "/">>, <<"#", "c", "\n">>}

ProgramText(program) == Lines([l \in DOMAIN program |-> Words(program[l])])

\* the places of a program: before the k+1-th token of line l, or after its
\* last token
Places(program) ==
    UNION {{<<l, k>> : k \in 0..Len(program[l])} : l \in DOMAIN program}

\* program with comment c inserted at place p
Commented(program, p, c) ==
    [program EXCEPT ![p[1]] = SubSeq(@, 1, p[2]) \o <<c>> \o SubSeq(@, p[2] + 1, Len(@))]

SourcesC10 ==
    {ProgramText(b) : b \in BasePrograms}
    \cup UNION {{ProgramText(Commented(b, p, c)) : p \in Places(b), c \in CommentTexts} :
                  b \in BasePrograms}

InitC10 == \E src \in Corpus \cup SourcesC10 : Called(src)

SpecC10 == InitC10 /\ [][Next]_vars

\* C10: a comment has no effect on the result: a program that compiles to
\* generated text compiles to the same text with a line or block comment
\* inserted between any two of its tokens, or before PROGRAM BEGIN.
C10_CommentHasNoEffect ==
    \A b \in BasePrograms, c \in CommentTexts :
        \A p \in Places(b) :
            pc = "done" /\ source = ProgramText(Commented(b, p, c)) =>
                result = compile(ProgramText(b))

-----------------------------------------------------------------------------
(* The Lexer on its own: Lexer(source), then get_next_token is called      *)
(* until it has returned EOF or raised.  current_token is the token the    *)
(* last call returned.                                                     *)

\* the state before the first get_next_token call on Lexer(src)
StartLexer(src) == [Start(src) EXCEPT !.pc = "lex"]

\* an exception leaves get_next_token
get_next_token_raise(e) == [returned |-> FALSE, raised |-> TRUE, text |-> <<>>, err |-> e]

GetNextTokenEnabled(s) == s.pc = "lex"

\* one call of get_next_token
GetNextToken(s) ==
    With(get_next_token(s.source, s.lexer, 1),
         LAMBDA r : IF r.raised
                    THEN [s EXCEPT !.pc = "done", !.lexer = r.lex,
                                   !.result = get_next_token_raise(r.err)]
                    ELSE [s EXCEPT !.pc = IF r.tok.type = "EOF" THEN "done" ELSE "lex",
                                   !.lexer = r.lex, !.current_token = r.tok])

GetNextTokenStep == GetNextTokenEnabled(S) /\ Becomes(GetNextToken(S))

\* Lexer(src) is constructed
Constructed(src) ==
    /\ source = src
    /\ pc = StartLexer(src).pc
    /\ lexer = StartLexer(src).lexer
    /\ current_token = StartLexer(src).current_token
    /\ frames = StartLexer(src).frames
    /\ ast = StartLexer(src).ast
    /\ gen = StartLexer(src).gen
    /\ output = StartLexer(src).output
    /\ indent_level = StartLexer(src).indent_level
    /\ symbols = StartLexer(src).symbols
    /\ result = StartLexer(src).result

-----------------------------------------------------------------------------
(* C11: termination.  Specification SpecC11 runs compile, and the Lexer on *)
(* its own, on every prefix of two programs (so that the end of the source *)
(* is met in every loop), on single words and on the corpus.  The code is  *)
(* one synchronous thread: a step that can be taken is taken.              *)

Prefixes(text) == {SubSeq(text, 1, n) : n \in 0..Len(text)}

SourcesC11 ==
    Corpus \cup Prefixes(FullProgram) \cup Prefixes(CommentedProgram)
    \cup {Words(<<w>>) : w \in Menu}

InitC11 == \E src \in SourcesC11 : Called(src) \/ Constructed(src)

NextC11 == Next \/ GetNextTokenStep

\* a step of NextC11 that changes the state can be taken: what
\* ENABLED <<NextC11>>_vars is, computed from the step the code takes
CanStep ==
    \/ pc \notin {"done", "lex"} /\ Step(S) # S
    \/ pc = "lex" /\ GetNextToken(S) # S

\* weak fairness of NextC11: a step that can be taken from some point on
\* forever is taken
Fairness == []<>(~CanStep) \/ []<><<NextC11>>_vars

SpecC11 == InitC11 /\ [][NextC11]_vars /\ Fairness

\* what is left to consume: the characters after the cursor, and the
\* current token unless it is EOF
Unread ==
    Len(source) - lexer.pos + (IF current_token.type = "EOF" THEN 0 ELSE 1)

\* the number of iterations of the expression and term loops that built node
RECURSIVE BinaryOps(_)
BinaryOps(node) ==
    IF node.node = "BinaryOp" THEN 1 + BinaryOps(node.left) + BinaryOps(node.right) ELSE 0

\* a get_next_token call raises, returns EOF or moves the cursor forward, and
\* no step moves the cursor back
TokenProgress ==
    /\ lexer'.pos >= lexer.pos
    /\ pc = "lex" =>
           result'.raised \/ current_token'.type = "EOF" \/ lexer'.pos > lexer.pos

\* an iteration of the metadata loop, of a body loop or of the parameter
\* loop raises or consumes a token
LoopProgress ==
    ParseMetadataEnabled(S) \/ InBody(S) \/ ParseParameterEnabled(S) =>
        (pc' = "done" /\ result'.err # NoError) \/ Unread' < Unread

\* a statement that has been parsed consumed a token, and two more for each
\* iteration of the expression and term loops
ExpressionProgress ==
    /\ ParseStatementEnabled(S)
    /\ pc' = "parse"
    /\ Len(frames'[Len(frames')].body) > Len(frames[Len(frames)].body)
    => Unread - Unread' >
           2 * BinaryOps(frames'[Len(frames')].body[Len(frames'[Len(frames')].body)].value)

\* C11: every compile call terminates: the cursor stays within the source
\* and never moves back, a get_next_token call raises, returns EOF or moves
\* the cursor forward, an iteration of a parser loop raises or consumes a
\* token, and compile (or the run of the Lexer) is over in the end.
C11_CompileTerminates ==
    /\ [](lexer.pos \in 0..Len(source))
    /\ [][TokenProgress /\ LoopProgress /\ ExpressionProgress]_vars
    /\ <>(pc = "done")

\* compile has returned the text of the program that takes every loop
C11_Witness ==
    /\ pc = "done"
    /\ source = FullProgram
    /\ result.returned
    /\ result.err = NoError
    /\ lexer.pos = Len(source)
    /\ current_token.type = "EOF"

-----------------------------------------------------------------------------
(* C12: token positions.  Specification SpecLexer runs the Lexer on its    *)
(* own on the sequences of at most MaxLexWords words, among them a newline, *)
(* string literals and comments that hold a newline, an unterminated       *)
(* string and an invalid character, and on the corpus.                     *)

MaxLexWords == 3

\*   x  |  12  |  ==  |  newline  |  "a" |  "a newline b"  |  #c newline  |
\*   /*c*/  |  /*c newline d*/  |  "a  |  @
LexMenu ==
    {<<"x">>, <<"1", "2">>, <<"=", "=">>, <<"\n">>, <<"\"", "a", "\"">>,
     <<"\"", "a", "\n", "b", "\"">>, <<"#", "c", "\n">>, <<"/", "*", "c", "*", "/">>,
     <<"/", "*", "c", "\n", "d", "*", "/">>, <<"\"", "a">>, <<"@">>}

\* the sequences of at most n words of the menu
RECURSIVE LexWordSeqs(_)
LexWordSeqs(n) ==
    IF n = 0 THEN {<<>>}
    ELSE LexWordSeqs(n - 1) \cup {Append(ws, w) : ws \in LexWordSeqs(n - 1), w \in LexMenu}

SourcesLexer == Corpus \cup {Words(ws) : ws \in LexWordSeqs(MaxLexWords)}

InitLexer == \E src \in SourcesLexer : Constructed(src)

SpecLexer == InitLexer /\ [][GetNextTokenStep]_vars

\* the place in the source (from 1) of the first character of the token the
\* next get_next_token call returns: the first one at or after the cursor
\* that is not white space, the end of the source for EOF
TokenStart ==
    First({j \in lexer.pos + 1..Len(source) : ~isspace(source[j])}, Len(source) + 1)

\* the places of the newline characters before place j
NewlinesBefore(j) == {i \in 1..j - 1 : source[i] = "\n"}

\* the place of the last newline character before place j, 0 if there is none
LineStart(j) == First({i \in NewlinesBefore(j) : \A k \in NewlinesBefore(j) : k <= i}, 0)

\* C12: the line of every token get_next_token returns is 1 plus the number
\* of newline characters before the token's first character, and its column
\* is the offset (from 1) of that character within its line.
C12_TokenLineAndColumn ==
    [][pc = "lex" /\ ~result'.raised =>
           /\ current_token'.line = 1 + Cardinality(NewlinesBefore(TokenStart))
           /\ current_token'.column = TokenStart - LineStart(TokenStart)]_vars
====
